---- MODULE Spec2Model ----
(***************************************************************************)
(* A model of zff1/nextjs-blog:                                            *)
(*   - the upload pipeline (src/src/app/api/upload/route.ts and its        *)
(*     Aliyun-only predecessor src/unnamed/part_000),                      *)
(*   - the axios Request wrapper (src/next.config.js, lines 198-512),      *)
(*   - the error envelope (src/src/app/api/data.ts).                       *)
(* Strings whose content the code inspects (startsWith, endsWith, split,   *)
(* template concatenation) are sequences of one-character strings.         *)
(***************************************************************************)
EXTENDS Integers, Sequences, FiniteSets, TLC

VARIABLES
    \* ---- upload pipeline ----
    handler,            \* which POST is deployed: "route" or "part_000"
    STORAGE_PROVIDER,   \* route.ts:63
    env,                \* process.env: a function on the variables that are set
    form,               \* the multipart form: a record of the fields sent
    plan,               \* what the provider does to put attempt 1, 2, 3
    upc,                \* position of the POST: "start", "put", "delay", "done"
    attempt,            \* the attempt parameter of uploadToAliyun / uploadToQiniu
    puts,               \* keys handed to the provider's put, in order
    waits,              \* the delay(ms) calls made, in order
    caught,             \* the error the POST's catch received, if any
    response,           \* the NextResponse: <<>> or <<[status, body]>>
    \* ---- Request wrapper ----
    pendingRequests,    \* Map<string, CancelTokenSource>: key -> owning request
    reqs,               \* the calls made through the wrapper
    lastCall,           \* "cancelAllRequests" right after that call, else "other"
    \* ---- error envelope ----
    thrown,             \* the value given to errorResponse
    argStatusCode,      \* errorResponse's statusCode argument (0: omitted)
    argCode,            \* errorResponse's code argument (0: omitted)
    envelope,           \* <<>> or <<the NextResponse produced>>
    returned,           \* <<>> or <<the NextResponse the wrapped handler returned>>
    \* ---- processUrl ----
    urls,               \* a URL and the results of processUrl applied to it, in order
    \* ---- friends page ----
    page,               \* the component's state and the fetches a save has made
    \* ---- proxy-content ----
    proxy               \* the GET's position, its fetches and its response

uploadVars  == <<handler, STORAGE_PROVIDER, env, form, plan, upc, attempt, puts,
                 waits, caught, response>>
requestVars == <<pendingRequests, reqs, lastCall>>
errorVars   == <<thrown, argStatusCode, argCode, envelope, returned>>
urlVars     == <<urls>>
pageVars    == <<page>>
proxyVars   == <<proxy>>
vars        == <<uploadVars, requestVars, errorVars, urlVars, pageVars, proxyVars>>

----------------------------------------------------------------------------
(* JavaScript strings as sequences of characters *)

StartsWith(s, p) == Len(s) >= Len(p) /\ SubSeq(s, 1, Len(p)) = p

EndsWith(s, p) == Len(s) >= Len(p) /\ SubSeq(s, Len(s) - Len(p) + 1, Len(s)) = p

Includes(s, p) ==
    \E i \in 1..(Len(s) - Len(p) + 1) : SubSeq(s, i, i + Len(p) - 1) = p

\* s.split(sep).pop(): what follows the last sep, or all of s without one
SplitPop(s, sep) ==
    LET at == {i \in 1..Len(s) : s[i] = sep}
    IN  IF at = {} THEN s
        ELSE LET last == CHOOSE i \in at : \A j \in at : j <= i
             IN  SubSeq(s, last + 1, Len(s))

LowerChar(c) ==
    CASE c = "A" -> "a" [] c = "D" -> "d" [] c = "E" -> "e" [] c = "G" -> "g"
      [] c = "M" -> "m" [] c = "N" -> "n" [] c = "P" -> "p" [] c = "R" -> "r"
      [] OTHER -> c

ToLowerCase(s) == [i \in 1..Len(s) |-> LowerChar(s[i])]

\* Array.prototype.join(", ") of an array of strings
RECURSIVE JoinComma(_)
JoinComma(xs) ==
    IF xs = <<>> THEN <<>>
    ELSE IF Len(xs) = 1 THEN xs[1]
    ELSE xs[1] \o <<",", " ">> \o JoinComma(Tail(xs))

----------------------------------------------------------------------------
(* The upload pipeline: route.ts and part_000 *)

\* MIME types and file names the form may carry
ImagePng     == <<"i", "m", "a", "g", "e", "/", "p", "n", "g">>
VideoMp4     == <<"v", "i", "d", "e", "o", "/", "m", "p", "4">>
TextMarkdown == <<"t", "e", "x", "t", "/", "m", "a", "r", "k", "d", "o", "w", "n">>
TextPlain    == <<"t", "e", "x", "t", "/", "p", "l", "a", "i", "n">>
TextHtml     == <<"t", "e", "x", "t", "/", "h", "t", "m", "l">>
AppPdf       == <<"a", "p", "p", "l", "i", "c", "a", "t", "i", "o", "n", "/", "p", "d", "f">>

Files ==
    { [type |-> ImagePng,     name |-> <<"a", ".", "P", "N", "G">>],
      [type |-> VideoMp4,     name |-> <<"v", ".", "m", "p", "4">>],
      [type |-> TextMarkdown, name |-> <<"n", ".", "m", "d">>],
      [type |-> TextPlain,    name |-> <<"t", ".", "t", "x", "t">>],
      [type |-> <<>>,         name |-> <<"n", ".", "m", "d">>],
      [type |-> AppPdf,       name |-> <<"d", ".", "p", "d", "f">>],
      [type |-> TextHtml,     name |-> <<"p", ".", "h", "t", "m", "l">>],
      [type |-> ImagePng,     name |-> <<"x", ".">>],
      [type |-> ImagePng,     name |-> <<"R", "E", "A", "D", "M", "E">>] }

FriendsAvatar == <<"f", "r", "i", "e", "n", "d", "s", "A", "v", "a", "t", "a", "r">>

\* the forms a client may send: file and directory are both optional fields
Forms ==
    { [f \in {} |-> <<>>] }
      \cup { [file |-> f] : f \in Files }
      \cup { [file |-> f, directory |-> FriendsAvatar] : f \in Files }

\* process.env: every variable set, one unset, the NEXT_PUBLIC fallback, and a
\* Qiniu domain written with a trailing slash
FullEnv ==
    [k \in {"OSS_REGION", "OSS_ACCESS_KEY_ID", "OSS_ACCESS_KEY_SECRET", "OSS_BUCKET",
            "QINIU_ACCESS_KEY", "QINIU_SECRET_KEY", "QINIU_BUCKET", "QINIU_DOMAIN"} |->
        CASE k = "OSS_REGION"   -> <<"r", "g">>
          [] k = "OSS_BUCKET"   -> <<"b", "k">>
          [] k = "QINIU_BUCKET" -> <<"q", "b">>
          [] k = "QINIU_DOMAIN" -> <<"h", "t", "t", "p", ":", "/", "/", "q", ".", "i", "o">>
          [] OTHER              -> <<"k">>]

Without(e, ks) == [k \in (DOMAIN e) \ ks |-> e[k]]

Envs ==
    { Without(FullEnv, {k}) : k \in DOMAIN FullEnv }
      \cup { FullEnv,
             Without(FullEnv, {"OSS_REGION", "OSS_BUCKET"}),
             [k \in ((DOMAIN FullEnv) \ {"OSS_REGION"}) \cup {"NEXT_PUBLIC_OSS_REGION"} |->
                 IF k = "NEXT_PUBLIC_OSS_REGION" THEN <<"r", "g">> ELSE FullEnv[k]],
             [FullEnv EXCEPT !["QINIU_DOMAIN"] = <<"h", "t", "t", "p", ":", "/", "/", "q", ".", "i", "o", "/">>] }

\* process.env.X as a JavaScript value: unset and "" are both falsy
Truthy(e, k) == k \in DOMAIN e /\ e[k] # <<>>

\* a || b on environment variables; `${undefined}` prints as "undefined"
EnvOr(e, a, b) ==
    IF Truthy(e, a) THEN e[a]
    ELSE IF Truthy(e, b) THEN e[b]
    ELSE <<"u", "n", "d", "e", "f", "i", "n", "e", "d">>

OSSKeys == <<"region", "accessKeyId", "accessKeySecret", "bucket">>

OSSEnvName(key) ==
    CASE key = "region"          -> "OSS_REGION"
      [] key = "accessKeyId"     -> "OSS_ACCESS_KEY_ID"
      [] key = "accessKeySecret" -> "OSS_ACCESS_KEY_SECRET"
      [] key = "bucket"          -> "OSS_BUCKET"

\* getOSSConfig: which keys have a value, and the value of each
OSSHas(e, key) ==
    Truthy(e, OSSEnvName(key)) \/ Truthy(e, "NEXT_PUBLIC_" \o OSSEnvName(key))

getOSSConfig(e, key) == EnvOr(e, OSSEnvName(key), "NEXT_PUBLIC_" \o OSSEnvName(key))

KeyChars(key) ==
    CASE key = "region"          -> <<"r", "e", "g", "i", "o", "n">>
      [] key = "accessKeyId"     -> <<"a", "c", "c", "e", "s", "s", "K", "e", "y", "I", "d">>
      [] key = "accessKeySecret" -> <<"a", "c", "c", "e", "s", "s", "K", "e", "y", "S", "e", "c", "r", "e", "t">>
      [] key = "bucket"          -> <<"b", "u", "c", "k", "e", "t">>

\* createOSSClient's missingEnvVars, in Object.entries order
missingEnvVars(e) == SelectSeq(OSSKeys, LAMBDA key : ~OSSHas(e, key))

\* getQiniuConfig / getQiniuToken: the token needs accessKey, secretKey and bucket
QiniuTokenMissing(e) ==
    ~Truthy(e, "QINIU_ACCESS_KEY") \/ ~Truthy(e, "QINIU_SECRET_KEY")
        \/ ~Truthy(e, "QINIU_BUCKET")

\* RETRY_CONFIG
maxRetries   == 3
initialDelay == 1000
maxDelay     == 5000

RECURSIVE Pow2(_)
Pow2(n) == IF n <= 0 THEN 1 ELSE 2 * Pow2(n - 1)

Min(a, b) == IF a <= b THEN a ELSE b

\* mutant of delayTime: the delay does not grow with the attempt
delayTime_Constant(n) == Min(initialDelay, maxDelay)

\* Math.min(initialDelay * Math.pow(2, attempt - 1), maxDelay)
delayTime(n) == Min(initialDelay * Pow2(n - 1), maxDelay)

\* whether a failed attempt n is the last one: attempt >= maxRetries
RetriesExhausted(n) == n >= maxRetries

\* Error messages: a fixed text and the part computed at run time
Message(text, detail) == [text |-> text, detail |-> detail]

IsEmptyMessage(m) == m.text = "" /\ m.detail = <<>>

ApiError400(text) == <<[status |-> 400, body |-> [error |-> Message(text, <<>>)]]>>

\* what the provider does to a put: it stores the object, fails with an error
\* (with or without a message), or answers with a status other than 200
PutOutcomes == {"ok", "error", "error_nomsg", "status"}

PlanAt(n) == IF n \in DOMAIN plan THEN plan[n] ELSE "error"

\* the error object the provider's SDK reports for attempt n
PutError(n) ==
    [origin  |-> "put",
     attempt |-> n,
     message |-> CASE PlanAt(n) = "error_nomsg" -> Message("", <<>>)
                   [] PlanAt(n) = "status" -> Message("provider answered 503", <<ToString(n)>>)
                   [] OTHER -> Message("provider unreachable", <<ToString(n)>>)]

\* ---- the POST handler's pure parts (route.ts:126-158, part_000:81-124) ----

allowedTypes == {TextMarkdown, TextPlain, <<"i", "m", "a", "g", "e", "/">>, <<"v", "i", "d", "e", "o", "/">>}

isAllowedType(file) ==
    \E type \in allowedTypes :
        StartsWith(file.type, type) \/ EndsWith(file.name, <<".", "m", "d">>)

extension(file) == ToLowerCase(SplitPop(file.name, "."))

directory(f) ==
    IF "directory" \in DOMAIN f /\ f.directory # <<>> THEN f.directory
    ELSE <<"a", "r", "t", "i", "c", "l", "e", "s">>

basePath(file) ==
    IF StartsWith(file.type, <<"i", "m", "a", "g", "e", "/">>) THEN <<"i", "m", "a", "g", "e", "s">>
    ELSE IF StartsWith(file.type, <<"v", "i", "d", "e", "o", "/">>) THEN <<"v", "i", "d", "e", "o", "s">>
    ELSE <<"a", "r", "t", "i", "c", "l", "e", "s">>

uuidv4 == <<"u", "u", "i", "d">>

filename(f) ==
    basePath(f.file) \o <<"/">> \o directory(f) \o <<"/">> \o uuidv4 \o <<".">>
        \o extension(f.file)

\* the early returns of POST: a 400 response, or <<>> when the form passes
Validation(f) ==
    IF "file" \notin DOMAIN f THEN ApiError400("No file provided")
    ELSE IF ~isAllowedType(f.file)
        THEN ApiError400("Only markdown, image and video files are allowed")
    ELSE IF extension(f.file) = <<>> THEN ApiError400("Invalid file extension")
    ELSE <<>>

\* `https://${config.bucket}.${config.region}.aliyuncs.com/${filename}`
AliyunUrl(e, name) ==
    <<"h", "t", "t", "p", "s", ":", "/", "/">> \o getOSSConfig(e, "bucket") \o <<".">>
        \o getOSSConfig(e, "region") \o <<".", "a", "l", "i", "y", "u", "n", "c", "s", ".", "c", "o", "m", "/">> \o name

\* config.domain?.replace(/\/$/, '') followed by `${domain}/${filename}`
QiniuUrl(e, name) ==
    LET d      == IF "QINIU_DOMAIN" \in DOMAIN e THEN e["QINIU_DOMAIN"]
                  ELSE <<"u", "n", "d", "e", "f", "i", "n", "e", "d">>
        domain == IF EndsWith(d, <<"/">>) THEN SubSeq(d, 1, Len(d) - 1) ELSE d
    IN  domain \o <<"/">> \o name

OSSConfigError(e, text) ==
    [origin  |-> "config",
     attempt |-> 0,
     message |-> Message(text, JoinComma([i \in 1..Len(missingEnvVars(e)) |->
                                             KeyChars(missingEnvVars(e)[i])]))]

QiniuConfigError ==
    [origin  |-> "config",
     attempt |-> 0,
     message |-> Message("Qiniu OSS not configured. Missing AccessKey, SecretKey or Bucket.",
                         <<>>)]

\* ---- the POST handler's steps ----

Respond(r) ==
    /\ response' = r
    /\ upc' = "done"

\* mutant of Catch: the error is answered with status 200
Catch_Status200(err) ==
    /\ caught' = <<err>>
    /\ Respond(<<[status |-> 200, body |-> [error |-> err.message]]>>)

\* catch (error): { error: error.message || "Upload failed" }, status 500
Catch(err) ==
    /\ caught' = <<err>>
    /\ Respond(<<[status |-> 500,
                  body   |-> [error |-> IF IsEmptyMessage(err.message)
                                        THEN Message("Upload failed", <<>>)
                                        ELSE err.message]]>>)

\* client.put / formUploader.put is called for attempt n
IssuePut(n) ==
    /\ attempt' = n
    /\ puts' = Append(puts, filename(form))
    /\ upc' = "put"
    /\ UNCHANGED <<caught, response>>

\* uploadToQiniu(filename, buffer, n) up to its put: getQiniuToken may throw
CallQiniu(n) ==
    IF QiniuTokenMissing(env)
    THEN Catch(QiniuConfigError) /\ UNCHANGED <<attempt, puts>>
    ELSE IssuePut(n)

\* await delay(...) after the failed attempt
Backoff ==
    /\ waits' = Append(waits, delayTime(attempt))
    /\ upc' = "delay"
    /\ UNCHANGED <<attempt, puts, caught, response>>

\* route.ts POST, from the request to its first await on the provider
POST ==
    /\ handler = "route"
    /\ upc = "start"
    /\ IF Validation(form) # <<>>
       THEN Respond(Validation(form)) /\ UNCHANGED <<attempt, puts, caught>>
       ELSE IF STORAGE_PROVIDER = "qiniu"
       THEN CallQiniu(1)
       ELSE IF missingEnvVars(env) # <<>>
       THEN Catch(OSSConfigError(env, "Alibaba OSS not configured. Missing environment variables"))
                /\ UNCHANGED <<attempt, puts>>
       ELSE IssuePut(1)
    /\ UNCHANGED <<handler, STORAGE_PROVIDER, env, form, plan, waits>>
    /\ UNCHANGED <<requestVars, errorVars, urlVars, pageVars, proxyVars>>

\* part_000 POST: the OSS client is created before the form is read
POST_part_000 ==
    /\ handler = "part_000"
    /\ upc = "start"
    /\ IF missingEnvVars(env) # <<>>
       THEN Catch(OSSConfigError(env, "OSS not configured. Missing environment variables"))
                /\ UNCHANGED <<attempt, puts>>
       ELSE IF Validation(form) # <<>>
       THEN Respond(Validation(form)) /\ UNCHANGED <<attempt, puts, caught>>
       ELSE IssuePut(1)
    /\ UNCHANGED <<handler, STORAGE_PROVIDER, env, form, plan, waits>>
    /\ UNCHANGED <<requestVars, errorVars, urlVars, pageVars, proxyVars>>

\* uploadToAliyun (route.ts) and uploadWithRetry (part_000): the put settles
uploadToAliyun ==
    /\ upc = "put"
    /\ handler = "part_000" \/ STORAGE_PROVIDER # "qiniu"
    /\ IF PlanAt(attempt) = "ok"
       THEN Respond(<<[status |-> 200, body |-> [url |-> AliyunUrl(env, puts[Len(puts)])]]>>)
                /\ UNCHANGED <<attempt, puts, caught, waits>>
       ELSE IF RetriesExhausted(attempt)
       THEN Catch(PutError(attempt)) /\ UNCHANGED <<attempt, puts, waits>>
       ELSE Backoff
    /\ UNCHANGED <<handler, STORAGE_PROVIDER, env, form, plan>>
    /\ UNCHANGED <<requestVars, errorVars, urlVars, pageVars, proxyVars>>

\* uploadToQiniu: formUploader.put calls back with (respErr, respBody, respInfo)
uploadToQiniu ==
    /\ upc = "put"
    /\ handler = "route" /\ STORAGE_PROVIDER = "qiniu"
    /\ IF PlanAt(attempt) \in {"error", "error_nomsg"}
       THEN IF attempt < maxRetries
            THEN Backoff
            ELSE Catch(PutError(attempt)) /\ UNCHANGED <<attempt, puts, waits>>
       ELSE IF PlanAt(attempt) = "ok"
       THEN Respond(<<[status |-> 200, body |-> [url |-> QiniuUrl(env, puts[Len(puts)])]]>>)
                /\ UNCHANGED <<attempt, puts, caught, waits>>
       ELSE Catch([origin  |-> "status",
                   attempt |-> attempt,
                   message |-> Message("Qiniu upload failed with status", <<"5", "0", "3">>)])
                /\ UNCHANGED <<attempt, puts, waits>>
    /\ UNCHANGED <<handler, STORAGE_PROVIDER, env, form, plan>>
    /\ UNCHANGED <<requestVars, errorVars, urlVars, pageVars, proxyVars>>

\* the delay timer fires and the recursive call makes the next attempt
RetryUpload ==
    /\ upc = "delay"
    /\ IF handler = "route" /\ STORAGE_PROVIDER = "qiniu"
       THEN CallQiniu(attempt + 1)
       ELSE IssuePut(attempt + 1)
    /\ UNCHANGED <<handler, STORAGE_PROVIDER, env, form, plan, waits>>
    /\ UNCHANGED <<requestVars, errorVars, urlVars, pageVars, proxyVars>>

InitUpload ==
    /\ handler \in {"route", "part_000"}
    /\ STORAGE_PROVIDER \in IF handler = "route" THEN {"aliyun", "qiniu"} ELSE {"aliyun"}
    /\ env \in Envs
    /\ form \in Forms
    /\ plan \in [1..maxRetries -> PutOutcomes]
    /\ upc = "start"
    /\ attempt = 0
    /\ puts = <<>>
    /\ waits = <<>>
    /\ caught = <<>>
    /\ response = <<>>

NextUpload ==
    \/ POST
    \/ POST_part_000
    \/ uploadToAliyun
    \/ uploadToQiniu
    \/ RetryUpload

----------------------------------------------------------------------------
(* The Request wrapper: next.config.js:198-512 *)

\* bounds of the model
NumReqs      == 2   \* calls made through the wrapper (tracking)
NumTrackReqs == 2   \* calls made through the wrapper (tracking with retries)
NumRetryReqs == 1   \* calls made through the wrapper (retries)
MaxRetry     == 2   \* largest retry count a caller passes

\* RequestConfig.retry when the caller gives none
NoRetry == -1

\* retryDelay || 1000
DefaultRetryDelay == 1000

NoValue == <<>>     \* undefined params / data

Methods  == {"get", "post", "put", "delete", "patch"}
Urls     == {"/friends", "/articles"}
Payloads == {NoValue, <<1>>}

\* the config argument of get/post/put/delete/patch: RequestConfig fields the
\* callers set; url, method, params and data are not among them (they are
\* the methods' own arguments)
BaseConfig ==
    [url |-> "", method |-> "", params |-> NoValue, data |-> NoValue,
     retry |-> NoRetry, retryDelay |-> 0, cancelToken |-> FALSE]

CallerConfigs(retries, delays) ==
    { [BaseConfig EXCEPT !.retry = r, !.retryDelay = d, !.cancelToken = c] :
        r \in retries, d \in delays, c \in BOOLEAN }

\* JSON.stringify of params / data; join prints undefined as ""
JSONstringify(v) == IF v = NoValue THEN "" ELSE "{\"v\":" \o ToString(v[1]) \o "}"

\* [url, method, JSON.stringify(params), JSON.stringify(data)].join('&')
generateRequestKey(config) ==
    config.url \o "&" \o config.method \o "&" \o JSONstringify(config.params)
        \o "&" \o JSONstringify(config.data)

NoRequest ==
    [state |-> "idle", method |-> "", url |-> "", params |-> NoValue, data |-> NoValue,
     requestConfig |-> BaseConfig, retry |-> NoRetry, sends |-> 0, via |-> "",
     delays |-> <<>>, cancelled |-> FALSE, sentAtCancel |-> 0, failures |-> 0,
     result |-> "", fields |-> {}, status |-> 0]

InFlightStates == {"sending", "waiting"}

Has(key) == key \in DOMAIN pendingRequests

MapSet(m, key, v) == [k \in (DOMAIN m) \cup {key} |-> IF k = key THEN v ELSE m[k]]

MapDelete(m, key) == [k \in (DOMAIN m) \ {key} |-> m[k]]

\* addPendingRequest: a source is made and stored unless the caller gave a token
addPendingRequest(m, i, config) ==
    IF ~config.cancelToken THEN MapSet(m, generateRequestKey(config), i) ELSE m

\* mutant of removePendingRequest: the entry is left in the map
removePendingRequest_KeepsEntry(m, config) == m

\* removePendingRequest
removePendingRequest(m, config) ==
    IF generateRequestKey(config) \in DOMAIN m
    THEN MapDelete(m, generateRequestKey(config))
    ELSE m

\* the next call through the wrapper is numbered in call order
NextId == Cardinality({i \in DOMAIN reqs : reqs[i].state # "idle"}) + 1

\* this.service.<method>(processUrl(url), ..., requestConfig) after addPendingRequest
Send(method, url, params, data, requestConfig) ==
    LET i == NextId
    IN  /\ i \in DOMAIN reqs
        /\ pendingRequests' = addPendingRequest(pendingRequests, i, requestConfig)
        /\ reqs' = [reqs EXCEPT ![i] =
                [NoRequest EXCEPT !.state = "sending", !.method = method, !.url = url,
                                    !.params = params, !.data = data,
                                    !.requestConfig = requestConfig,
                                    !.retry = requestConfig.retry,
                                    !.sends = 1, !.via = "service"]]
        /\ lastCall' = "other"
        /\ UNCHANGED <<uploadVars, errorVars, urlVars, pageVars, proxyVars>>

\* get(url, params, config): requestConfig = { ...config, params }
get(url, params, config) ==
    Send("get", url, params, NoValue, [config EXCEPT !.params = params])

\* post / put / patch (url, data, config): requestConfig = { ...config }
post(url, data, config) == Send("post", url, NoValue, data, config)

put(url, data, config) == Send("put", url, NoValue, data, config)

patch(url, data, config) == Send("patch", url, NoValue, data, config)

\* delete(url, config)
delete(url, config) == Send("delete", url, NoValue, NoValue, config)

\* the promise settles and .finally(() => this.removePendingRequest(requestConfig)) runs
Settle(i, state, result, failed, fields, status) ==
    /\ reqs' = [reqs EXCEPT ![i].state = state, ![i].result = result,
                            ![i].failures = @ + failed, ![i].fields = fields,
                            ![i].status = status]
    /\ pendingRequests' = removePendingRequest(pendingRequests, reqs[i].requestConfig)

\* what comes back for one send
Outcomes == {"200 enveloped", "200 bare", "201", "500", "network error"}

\* response.status of a response the HTTP library accepts as successful (2xx),
\* 0 for an outcome that is none
AcceptedStatus(outcome) ==
    IF outcome \in {"200 enveloped", "200 bare"} THEN 200
    ELSE IF outcome = "201" THEN 201
    ELSE 0

\* the fields of ResponseData
ResponseData == {"code", "data", "message", "success"}

\* the fields of the JSON body the server sent (response.data): the body of
\* successResponse, or a body without a data field such as the upload's {url}
ServerBody(outcome) ==
    IF outcome = "200 enveloped"
    THEN {"code", "success", "message", "data", "timestamp"}
    ELSE IF outcome = "200 bare" THEN {"url"}
    ELSE {"code", "success", "message", "error", "timestamp"}

\* the success handler's value for a 200: res itself when res.data is defined,
\* else { code: 200, data: res, message: 'success', success: true }
Unwrap(res) == IF "data" \in res THEN res ELSE ResponseData

\* the fields of an AxiosResponse, which the global axios resolves with
AxiosResponseFields == {"data", "status", "statusText", "headers", "config", "request"}

\* mutant of ShouldRetry: a retry count of 0 counts as a retry left
ShouldRetry_FromZero(retry) == retry # NoRetry /\ retry >= 0

\* the error handler's retry test: config && config.retry && config.retry > 0
ShouldRetry(retry) == retry # NoRetry /\ retry # 0 /\ retry > 0

\* the delay of the retry timer: config.retryDelay || 1000
retryDelay(config) == IF config.retryDelay # 0 THEN config.retryDelay ELSE DefaultRetryDelay

\* a send made by this.service settles: the response interceptors run
ServiceResponse(i, outcome) ==
    /\ reqs[i].state = "sending" /\ reqs[i].via = "service" /\ ~reqs[i].cancelled
    /\ lastCall' = "other"
    /\ UNCHANGED <<uploadVars, errorVars, urlVars, pageVars, proxyVars>>
    /\ CASE outcome \in {"200 enveloped", "200 bare"} ->
                Settle(i, "resolved", "envelope", 0, Unwrap(ServerBody(outcome)),
                       AcceptedStatus(outcome))
         [] outcome = "201" ->
                Settle(i, "rejected", "Error", 0, {}, AcceptedStatus(outcome))
         [] OTHER ->
                IF ShouldRetry(reqs[i].retry)
                THEN /\ reqs' = [reqs EXCEPT ![i].state = "waiting",
                                            ![i].retry = @ - 1,
                                            ![i].failures = @ + 1,
                                            ![i].delays =
                                                Append(@, retryDelay(reqs[i].requestConfig))]
                     /\ UNCHANGED pendingRequests
                ELSE Settle(i, "rejected", "AxiosError", 1, {}, 0)

\* mutant of RetryTimer: the retry is sent although its token is cancelled
RetryTimer_IgnoresCancel(i) ==
    /\ reqs[i].state = "waiting"
    /\ lastCall' = "other"
    /\ UNCHANGED <<uploadVars, errorVars, urlVars, pageVars, proxyVars>>
    /\ reqs' = [reqs EXCEPT ![i].state = "sending", ![i].via = "axios",
                            ![i].sends = @ + 1]
    /\ UNCHANGED pendingRequests

\* the retry timer fires: resolve(axios(config)) on the global axios, which
\* refuses a config whose token is already cancelled
RetryTimer(i) ==
    /\ reqs[i].state = "waiting"
    /\ lastCall' = "other"
    /\ UNCHANGED <<uploadVars, errorVars, urlVars, pageVars, proxyVars>>
    /\ IF reqs[i].cancelled
       THEN Settle(i, "rejected", "Cancel", 0, {}, 0)
       ELSE /\ reqs' = [reqs EXCEPT ![i].state = "sending", ![i].via = "axios",
                                   ![i].sends = @ + 1]
            /\ UNCHANGED pendingRequests

\* a send made by the global axios settles: no interceptor is registered on it
AxiosResponse(i, outcome) ==
    /\ reqs[i].state = "sending" /\ reqs[i].via = "axios" /\ ~reqs[i].cancelled
    /\ lastCall' = "other"
    /\ UNCHANGED <<uploadVars, errorVars, urlVars, pageVars, proxyVars>>
    /\ IF outcome \in {"200 enveloped", "200 bare", "201"}
       THEN Settle(i, "resolved", "AxiosResponse", 0, AxiosResponseFields,
                   AcceptedStatus(outcome))
       ELSE Settle(i, "rejected", "AxiosError", 1, {}, 0)

\* a send whose token was cancelled is aborted and rejects with the Cancel
CancelDelivered(i) ==
    /\ reqs[i].state = "sending" /\ reqs[i].cancelled
    /\ lastCall' = "other"
    /\ UNCHANGED <<uploadVars, errorVars, urlVars, pageVars, proxyVars>>
    /\ Settle(i, "rejected", "Cancel", 0, {}, 0)

\* source.cancel(...) on the source request i made
SourceCancel(rs, i) ==
    [rs EXCEPT ![i].cancelled = TRUE,
               ![i].sentAtCancel = IF rs[i].cancelled THEN @ ELSE rs[i].sends]

\* cancelRequest(config)
cancelRequest(config) ==
    /\ lastCall' = "other"
    /\ UNCHANGED <<uploadVars, errorVars, urlVars, pageVars, proxyVars>>
    /\ IF Has(generateRequestKey(config))
       THEN /\ reqs' = SourceCancel(reqs, pendingRequests[generateRequestKey(config)])
            /\ pendingRequests' = MapDelete(pendingRequests, generateRequestKey(config))
       ELSE UNCHANGED <<reqs, pendingRequests>>

\* cancelAllRequests
cancelAllRequests ==
    /\ lastCall' = "cancelAllRequests"
    /\ UNCHANGED <<uploadVars, errorVars, urlVars, pageVars, proxyVars>>
    /\ reqs' = [i \in DOMAIN reqs |->
                  IF \E k \in DOMAIN pendingRequests : pendingRequests[k] = i
                  THEN SourceCancel(reqs, i)[i]
                  ELSE reqs[i]]
    /\ pendingRequests' = [k \in {} |-> 0]

\* the configs a caller hands to cancelRequest: the requestConfig of a call, or
\* the request described by its url, method, params and data
CancelConfigs ==
    { [BaseConfig EXCEPT !.params = p] : p \in Payloads }
      \cup { [BaseConfig EXCEPT !.url = "/friends", !.method = "get", !.params = <<1>>],
             [BaseConfig EXCEPT !.url = "/friends", !.method = "post", !.data = <<1>>] }

InitRequest(n) ==
    /\ pendingRequests = [k \in {} |-> 0]
    /\ reqs = [i \in 1..n |-> NoRequest]
    /\ lastCall = "other"

----------------------------------------------------------------------------
(* processUrl: next.config.js:235-242 *)

ApiRoot     == <<"/", "a", "p", "i", "/">>
HttpScheme  == <<"h", "t", "t", "p", ":", "/", "/">>
HttpsScheme == <<"h", "t", "t", "p", "s", ":", "/", "/">>

\* mutant of processUrl: the leading '/' is kept behind the prefix
processUrl_KeepsSlash(url) ==
    IF StartsWith(url, ApiRoot) \/ StartsWith(url, HttpScheme) \/ StartsWith(url, HttpsScheme)
    THEN url
    ELSE ApiRoot \o url

\* processUrl(url)
processUrl(url) ==
    IF StartsWith(url, ApiRoot) \/ StartsWith(url, HttpScheme) \/ StartsWith(url, HttpsScheme)
    THEN url
    ELSE ApiRoot \o (IF StartsWith(url, <<"/">>) THEN SubSeq(url, 2, Len(url)) ELSE url)

\* the URLs callers pass: how they begin, and what follows
UrlHeads ==
    { <<>>, <<"/">>, <<"/", "/">>, <<"/", "a", "p", "i">>, ApiRoot, <<"a", "p", "i", "/">>, <<"/", "A", "P", "I", "/">>, HttpScheme, HttpsScheme,
      <<"h", "t", "t", "p", ":", "/">>, <<"H", "T", "T", "P", "S", ":", "/", "/">>, <<"f", "t", "p", ":", "/", "/">> }

UrlTails == { <<>>, <<"x">>, <<"f", "r", "i", "e", "n", "d", "s">>, <<"a", "p", "i", "/", "x">> }

UrlInputs == { h \o t : h \in UrlHeads, t \in UrlTails }

\* processUrl is applied to the URL, then to its own result
ApplyProcessUrl ==
    /\ Len(urls) \in 1..2
    /\ urls' = Append(urls, processUrl(urls[Len(urls)]))
    /\ UNCHANGED <<uploadVars, requestVars, errorVars, pageVars, proxyVars>>

InitUrl == urls \in { <<u>> : u \in UrlInputs }

----------------------------------------------------------------------------
(* The error envelope: data.ts *)
(* A Chinese message is written one romanised syllable per character.      *)

\* new ApiError(message, code = 500, statusCode = 500); 0 stands for an omitted argument
ApiError(message, code, statusCode) ==
    [kind |-> "ApiError", ctor |-> "", message |-> message,
     code |-> IF code = 0 THEN 500 ELSE code,
     statusCode |-> IF statusCode = 0 THEN 500 ELSE statusCode]

\* new Error(message)
PlainError(message) ==
    [kind |-> "Error", ctor |-> "", message |-> message, code |-> 0, statusCode |-> 0]

\* a thrown or passed string
StringError(message) ==
    [kind |-> "string", ctor |-> "", message |-> message, code |-> 0, statusCode |-> 0]

ApiErrorNames ==
    { "BAD_REQUEST",
      "VALIDATION_ERROR",
      "MISSING_PARAMS",
      "UNAUTHORIZED",
      "TOKEN_EXPIRED",
      "INVALID_TOKEN",
      "FORBIDDEN",
      "INSUFFICIENT_PERMISSIONS",
      "NOT_FOUND",
      "USER_NOT_FOUND",
      "ARTICLE_NOT_FOUND",
      "CONFLICT",
      "DUPLICATE_ENTRY",
      "RATE_LIMIT",
      "INTERNAL_ERROR",
      "DATABASE_ERROR",
      "EXTERNAL_API_ERROR" }

\* the arguments each ApiErrors constructor gives to new ApiError
ApiErrorsTable(name) ==
    CASE name = "BAD_REQUEST" -> [code |-> 400, statusCode |-> 400,
            message |-> <<"qing", "qiu", "can", "shu", "cuo", "wu">>]
      [] name = "VALIDATION_ERROR" -> [code |-> 400, statusCode |-> 400,
            message |-> <<"shu", "ju", "yan", "zheng", "shi", "bai">>]
      [] name = "MISSING_PARAMS" -> [code |-> 400, statusCode |-> 400,
            message |-> <<"que", "shao", "bi", "yao", "can", "shu">>]
      [] name = "UNAUTHORIZED" -> [code |-> 401, statusCode |-> 401,
            message |-> <<"wei", "shou", "quan", "fang", "wen">>]
      [] name = "TOKEN_EXPIRED" -> [code |-> 401, statusCode |-> 401,
            message |-> <<"ling", "pai", "yi", "guo", "qi">>]
      [] name = "INVALID_TOKEN" -> [code |-> 401, statusCode |-> 401,
            message |-> <<"wu", "xiao", "de", "ling", "pai">>]
      [] name = "FORBIDDEN" -> [code |-> 403, statusCode |-> 403,
            message |-> <<"jin", "zhi", "fang", "wen">>]
      [] name = "INSUFFICIENT_PERMISSIONS" -> [code |-> 403, statusCode |-> 403,
            message |-> <<"quan", "xian", "bu", "zu">>]
      [] name = "NOT_FOUND" -> [code |-> 404, statusCode |-> 404,
            message |-> <<"zi", "yuan", "bu", "cun", "zai">>]
      [] name = "USER_NOT_FOUND" -> [code |-> 404, statusCode |-> 404,
            message |-> <<"yong", "hu", "bu", "cun", "zai">>]
      [] name = "ARTICLE_NOT_FOUND" -> [code |-> 404, statusCode |-> 404,
            message |-> <<"wen", "zhang", "bu", "cun", "zai">>]
      [] name = "CONFLICT" -> [code |-> 409, statusCode |-> 409,
            message |-> <<"zi", "yuan", "chong", "tu">>]
      [] name = "DUPLICATE_ENTRY" -> [code |-> 409, statusCode |-> 409,
            message |-> <<"shu", "ju", "yi", "cun", "zai">>]
      [] name = "RATE_LIMIT" -> [code |-> 429, statusCode |-> 429,
            message |-> <<"qing", "qiu", "guo", "yu", "pin", "fan">>]
      [] name = "INTERNAL_ERROR" -> [code |-> 500, statusCode |-> 500,
            message |-> <<"fu", "wu", "qi", "nei", "bu", "cuo", "wu">>]
      [] name = "DATABASE_ERROR" -> [code |-> 500, statusCode |-> 500,
            message |-> <<"shu", "ju", "ku", "lian", "jie", "cuo", "wu">>]
      [] name = "EXTERNAL_API_ERROR" -> [code |-> 500, statusCode |-> 500,
            message |-> <<"wai", "bu", "API", "diao", "yong", "shi", "bai">>]

\* ApiErrors[name](message): arg is <<>> for an omitted message, else <<message>>
ApiErrors(name, arg) ==
    [ApiError(IF arg = <<>> THEN ApiErrorsTable(name).message ELSE arg[1],
              ApiErrorsTable(name).code, ApiErrorsTable(name).statusCode)
        EXCEPT !.ctor = name]

OperationFailed == <<"cao", "zuo", "shi", "bai">>

\* mutant of errorResponse: the arguments win over the ApiError's own fields
errorResponse_ArgumentsWin(error, statusCode, code) ==
    LET sc == IF statusCode = 0 THEN 500 ELSE statusCode
    IN  [status |-> sc,
         body   |-> [code |-> IF code # 0 THEN code ELSE sc, success |-> FALSE,
                     message |-> OperationFailed, error |-> error.message]]

\* errorResponse(error, statusCode = 500, code?)
errorResponse(error, statusCode, code) ==
    LET sc == IF statusCode = 0 THEN 500 ELSE statusCode
        finalCode == IF error.kind = "ApiError" THEN error.code
                     ELSE IF code # 0 THEN code ELSE sc
        finalStatusCode == IF error.kind = "ApiError" THEN error.statusCode ELSE sc
    IN  [status |-> finalStatusCode,
         body   |-> [code |-> finalCode, success |-> FALSE, message |-> OperationFailed,
                     error |-> error.message]]

Messages ==
    { <<>>, <<"u", "s", "e", "r", " ", "n", "o", "t", " ", "f", "o", "u", "n", "d">>, <<"b", "o", "o", "m">>,
      <<"wei", "shou", "quan">> }

ErrorValues ==
    { ApiErrors(n, a) : n \in ApiErrorNames, a \in {<<>>} \cup {<<m>> : m \in Messages} }
      \cup { ApiError(m, c, sc) : m \in Messages, c \in {0, 1001}, sc \in {0, 400} }
      \cup { PlainError(m) : m \in Messages }
      \cup { StringError(m) : m \in Messages }

StatusCodeArgs == {0, 404, 418}

CodeArgs == {0, 1001}

CallErrorResponse ==
    /\ envelope = <<>>
    /\ envelope' = <<errorResponse(thrown, argStatusCode, argCode)>>
    /\ UNCHANGED <<thrown, argStatusCode, argCode, returned>>
    /\ UNCHANGED <<uploadVars, requestVars, urlVars, pageVars, proxyVars>>

InitError ==
    /\ thrown \in ErrorValues
    /\ argStatusCode \in StatusCodeArgs
    /\ argCode \in CodeArgs
    /\ envelope = <<>>
    /\ returned = <<>>

----------------------------------------------------------------------------
(* withErrorHandler: data.ts:176-244 *)

\* the substrings the catch branch looks for; a Chinese word is written one
\* romanised syllable per character
NotFoundEn     == <<"n", "o", "t", " ", "f", "o", "u", "n", "d">>
UnauthorizedEn == <<"u", "n", "a", "u", "t", "h", "o", "r", "i", "z", "e", "d">>
ForbiddenEn    == <<"f", "o", "r", "b", "i", "d", "d", "e", "n">>
ValidationEn   == <<"v", "a", "l", "i", "d", "a", "t", "i", "o", "n">>
NotFoundZh     == <<"bu", "cun", "zai">>
UnauthorizedZh == <<"wei", "shou", "quan">>
ForbiddenZh    == <<"jin", "zhi">>
ValidationZh   == <<"yan", "zheng">>

UnknownError == <<"wei", "zhi", "cuo", "wu">>

\* messages a handler's error may carry
HandlerMessages ==
    { <<>>,
      <<"b", "o", "o", "m">>,
      <<"u", "s", "e", "r", " ">> \o NotFoundEn,
      <<"N", "o", "t", " ", "F", "o", "u", "n", "d">>,
      <<"yong", "hu">> \o NotFoundZh,
      UnauthorizedEn,
      UnauthorizedEn \o <<":", " ">> \o NotFoundEn,
      UnauthorizedZh \o <<"fang", "wen">>,
      ForbiddenEn,
      ForbiddenZh \o <<"fang", "wen">>,
      ForbiddenEn \o <<" ">> \o UnauthorizedEn,
      ValidationEn \o <<" ">> \o ForbiddenEn,
      <<"shu", "ju">> \o ValidationZh \o <<"shi", "bai">>,
      ValidationEn \o <<" ", "e", "r", "r", "o", "r">> }

\* what a wrapped handler may throw: an ApiError of a constructor or made
\* directly, an Error, or a value that is not an Error
ThrownValues ==
    { ApiErrors(n, a) : n \in ApiErrorNames,
                        a \in {<<>>, <<<<"b", "o", "o", "m">>>>, <<NotFoundEn>>, <<ValidationZh>>} }
      \cup { ApiError(m, c, sc) : m \in {<<"b", "o", "o", "m">>, NotFoundEn},
                                  c \in {0, 1001}, sc \in {0, 400} }
      \cup { PlainError(m) : m \in HandlerMessages }
      \cup { StringError(m) : m \in {<<"b", "o", "o", "m">>, NotFoundEn} }

\* the handler returned: nothing was thrown
NothingThrown == [kind |-> "none", ctor |-> "", message |-> <<>>, code |-> 0, statusCode |-> 0]

\* mutant of withErrorHandlerCatch: the message decides for an ApiError too
withErrorHandlerCatch_MessageFirst(error) ==
    IF error.kind \in {"ApiError", "Error"}
           /\ (Includes(error.message, NotFoundEn) \/ Includes(error.message, NotFoundZh))
    THEN errorResponse(PlainError(error.message), 404, 0)
    ELSE IF error.kind = "ApiError" THEN errorResponse(error, 0, 0)
    ELSE IF error.kind = "Error" THEN errorResponse(error, 500, 0)
    ELSE errorResponse(StringError(UnknownError), 500, 0)

\* the catch branch of withErrorHandler
withErrorHandlerCatch(error) ==
    IF error.kind = "ApiError" THEN errorResponse(error, 0, 0)
    ELSE IF error.kind = "Error"
    THEN IF Includes(error.message, NotFoundEn) \/ Includes(error.message, NotFoundZh)
         THEN errorResponse(error, 404, 0)
         ELSE IF Includes(error.message, UnauthorizedEn) \/ Includes(error.message, UnauthorizedZh)
         THEN errorResponse(error, 401, 0)
         ELSE IF Includes(error.message, ForbiddenEn) \/ Includes(error.message, ForbiddenZh)
         THEN errorResponse(error, 403, 0)
         ELSE IF Includes(error.message, ValidationEn) \/ Includes(error.message, ValidationZh)
         THEN errorResponse(error, 400, 0)
         ELSE errorResponse(error, 500, 0)
    ELSE errorResponse(StringError(UnknownError), 500, 0)

\* JSON values of a document's fields, tagged with their JavaScript type
Str(s) == [t |-> "string", v |-> s]

ObjectId(hex) == [t |-> "ObjectId", v |-> hex]

\* documents a handler reads from the database, and objects that are none
MongoDocuments ==
    { [_id |-> ObjectId("65a1"), name |-> Str("Ann")],
      [_id |-> ObjectId("65b2"), name |-> Str("Bob"), link |-> Str("https://b.io")],
      [_id |-> ObjectId("65c3"), name |-> Str(""), isApproved |-> Str("true")] }

PlainObjects == { [url |-> Str("https://b.io/a.png")], [name |-> Str("Ann")] }

\* the data argument of successResponse / paginatedResponse: absent, one
\* document or object, an array, or { items, pagination }
HandlerData ==
    { [shape |-> "none", docs |-> <<>>] }
      \cup { [shape |-> "object", docs |-> <<d>>] : d \in MongoDocuments \cup PlainObjects }
      \cup { [shape |-> sh, docs |-> ds] :
                sh \in {"array", "page"},
                ds \in {<<>>} \cup { <<d>> : d \in MongoDocuments \cup PlainObjects }
                        \cup { <<d, e>> : d, e \in MongoDocuments } }

\* JSON.stringify of a field: ObjectId.prototype.toJSON gives the hex string
toJSON(x) == IF x.t = "ObjectId" THEN Str(x.v) ELSE x

\* NextResponse.json(body) followed by response.json(): the data as parsed
\* from the wire
responseJson(data) ==
    [data EXCEPT !.docs = [i \in DOMAIN data.docs |->
                              [k \in DOMAIN data.docs[i] |-> toJSON(data.docs[i][k])]]]

\* doc._id instanceof ObjectId
InstanceofObjectId(doc) == "_id" \in DOMAIN doc /\ doc["_id"].t = "ObjectId"

\* mutant of toFrontend: the identifier is dropped, as toMongo does
toFrontend_DropsId(doc) == [k \in (DOMAIN doc) \ {"_id"} |-> doc[k]]

\* toFrontend: { ...rest, _id: _id?.toString() || '' }
toFrontend(doc) ==
    [k \in (DOMAIN doc) \cup {"_id"} |->
        IF k = "_id"
        THEN Str(IF "_id" \in DOMAIN doc THEN doc["_id"].v ELSE "")
        ELSE doc[k]]

\* toFrontendList
toFrontendList(docs) == [i \in DOMAIN docs |-> toFrontend(docs[i])]

\* the conversion branch of withErrorHandler on responseData.data
ConvertData(data) ==
    IF data.shape = "none" THEN data
    ELSE IF data.shape = "array"
    THEN [data EXCEPT !.docs = toFrontendList(data.docs)]
    ELSE IF data.shape = "object" /\ InstanceofObjectId(data.docs[1])
    THEN [data EXCEPT !.docs = <<toFrontend(data.docs[1])>>]
    ELSE IF data.shape = "page" /\ Len(data.docs) > 0 /\ InstanceofObjectId(data.docs[1])
    THEN [data EXCEPT !.docs = toFrontendList(data.docs)]
    ELSE data

\* successResponse(data) / paginatedResponse(data, pagination) as the handler returns it
successResponse(data) ==
    [status |-> 200, body |-> [code |-> 200, success |-> TRUE, data |-> data]]

\* withErrorHandler(handler)(request): the handler returned or threw
withErrorHandler ==
    /\ envelope = <<>>
    /\ IF returned # <<>>
       THEN envelope' = <<[status |-> returned[1].status,
                           body   |-> [returned[1].body EXCEPT
                                          !.data = ConvertData(responseJson(@))]]>>
       ELSE envelope' = <<withErrorHandlerCatch(thrown)>>
    /\ UNCHANGED <<thrown, argStatusCode, argCode, returned>>
    /\ UNCHANGED <<uploadVars, requestVars, urlVars, pageVars, proxyVars>>

InitHandler ==
    /\ \/ thrown \in ThrownValues /\ returned = <<>>
       \/ thrown = NothingThrown /\ returned \in { <<successResponse(d)>> : d \in HandlerData }
    /\ argStatusCode = 0
    /\ argCode = 0
    /\ envelope = <<>>

----------------------------------------------------------------------------
(* The friends page: next.config.js:524-804 *)

\* an avatar stored earlier: the key the upload POST gave it
AvatarKey == filename([file |-> [type |-> ImagePng, name |-> <<"a", ".", "p", "n", "g">>],
                       directory |-> FriendsAvatar])

\* the Qiniu domains a deployment may have: a domain of its own, the same
\* written with a trailing slash, and a Qiniu test domain
QiniuDomains ==
    { FullEnv["QINIU_DOMAIN"],
      FullEnv["QINIU_DOMAIN"] \o <<"/">>,
      <<"h", "t", "t", "p", ":", "/", "/", "a", ".", "c", "l", "o", "u", "d", "d", "n", ".", "c", "o", "m">> }

\* the URLs the upload endpoint returns for AvatarKey
StoredAvatars ==
    { AliyunUrl(FullEnv, AvatarKey) }
      \cup { QiniuUrl([FullEnv EXCEPT !["QINIU_DOMAIN"] = d], AvatarKey) : d \in QiniuDomains }

ExternalAvatar == <<"h", "t", "t", "p", "s", ":", "/", "/", "e", "x", "t", ".", "c", "o", "m", "/", "a", ".", "p", "n", "g">>

\* the URL a new upload returns: a fresh key in the store of origin
NewUploadUrl == <<"h", "t", "t", "p", "s", ":", "/", "/", "n", "e", "w", "/", "b", ".", "p", "n", "g">>

\* isOssUrl(url); publicDomain is process.env.NEXT_PUBLIC_QINIU_DOMAIN, <<>> unset
isOssUrl(url, publicDomain) ==
    \/ Includes(url, <<".", "a", "l", "i", "y", "u", "n", "c", "s", ".", "c", "o", "m", "/">>)
    \/ Includes(url, <<"q", "i", "n", "i", "u", "d", "n", ".", "c", "o", "m", "/">>)
    \/ Includes(url, <<"q", "b", "o", "x", ".", "m", "e", "/">>)
    \/ Includes(url, <<"c", "l", "o", "u", "d", "d", "n", ".", "c", "o", "m", "/">>)
    \/ publicDomain # <<>> /\ Includes(url, publicDomain)

\* fetch(...) is called
Fetch(what) == [page EXCEPT !.fetches = Append(@, what)]

\* the first branch taken after `let avatarUrl = ...avatar`
StartSave(file, reupload) ==
    IF file THEN [Fetch("/api/upload") EXCEPT !.pc = "upload"]
    ELSE IF reupload THEN [Fetch("/api/proxy-image") EXCEPT !.pc = "proxy"]
    ELSE [page EXCEPT !.pc = "save", !.avatarUrl = page.friend.avatar]

\* handleAddFriend up to its first await
handleAddFriend ==
    /\ page.pc = "ready" /\ page.handler = "handleAddFriend"
    /\ IF page.friend.name /\ page.friend.link
       THEN page' = StartSave(page.file,
                              page.friend.avatar # <<>>
                                  /\ ~isOssUrl(page.friend.avatar, page.publicDomain))
       ELSE page' = [page EXCEPT !.pc = "done"]
    /\ UNCHANGED <<uploadVars, requestVars, errorVars, urlVars, proxyVars>>

\* handleEditFriendSave up to its first await
handleEditFriendSave ==
    /\ page.pc = "ready" /\ page.handler = "handleEditFriendSave"
    /\ page' = StartSave(page.file,
                         page.friend.avatar # <<>>
                             /\ ~isOssUrl(page.friend.avatar, page.publicDomain)
                             /\ page.friend.isApproved)
    /\ UNCHANGED <<uploadVars, requestVars, errorVars, urlVars, proxyVars>>

\* uploadImageFromUrl: the proxy answers; a failure is thrown to the handler's catch
uploadImageFromUrl(ok) ==
    /\ page.pc = "proxy"
    /\ page' = IF ok THEN [Fetch("/api/upload") EXCEPT !.pc = "upload"]
               ELSE [page EXCEPT !.pc = "done"]
    /\ UNCHANGED <<uploadVars, requestVars, errorVars, urlVars, proxyVars>>

\* uploadImage: the upload endpoint answers {url}, or not ok / without url
uploadImage(ok) ==
    /\ page.pc = "upload"
    /\ page' = IF ok THEN [page EXCEPT !.pc = "save", !.avatarUrl = NewUploadUrl]
               ELSE [page EXCEPT !.pc = "done"]
    /\ UNCHANGED <<uploadVars, requestVars, errorVars, urlVars, proxyVars>>

\* fetch("/api/friends", { method: POST or PUT, body: {...friend, avatar: avatarUrl} })
SaveFriend ==
    /\ page.pc = "save"
    /\ page' = [Fetch("/api/friends") EXCEPT !.pc = "done", !.body = <<page.avatarUrl>>]
    /\ UNCHANGED <<uploadVars, requestVars, errorVars, urlVars, proxyVars>>

InitPage ==
    page \in [pc          : {"ready"},
              handler     : {"handleAddFriend", "handleEditFriendSave"},
              friend      : [avatar     : StoredAvatars \cup {ExternalAvatar, <<>>},
                             isApproved : BOOLEAN,
                             name       : BOOLEAN,
                             link       : {TRUE}],
              file        : BOOLEAN,
              publicDomain : {<<>>, FullEnv["QINIU_DOMAIN"]},
              avatarUrl   : {<<>>},
              fetches     : {<<>>},
              body        : {<<>>}]

----------------------------------------------------------------------------
(* proxy-content: src/app/api/proxy-content/route.ts *)

\* process.env.QINIU_DOMAIN_HOSTNAME when it is set
QiniuHostname == <<"q", ".", "i", "o">>

\* ALLOWED_DOMAINS; hostnameSet tells whether QINIU_DOMAIN_HOSTNAME is set
ALLOWED_DOMAINS(hostnameSet) ==
    { <<"n", "e", "x", "t", "-", "b", "l", "o", "g", ".", "o", "s", "s", "-", "c", "n", "-", "b", "e", "i", "j", "i", "n", "g", ".", "a", "l", "i", "y", "u", "n", "c", "s", ".", "c", "o", "m">>,
      <<"q", "i", "n", "i", "u", "d", "n", ".", "c", "o", "m">>,
      <<"q", "b", "o", "x", ".", "m", "e">>,
      <<"c", "l", "o", "u", "d", "d", "n", ".", "c", "o", "m">> }
      \cup (IF hostnameSet THEN {QiniuHostname} ELSE {})

\* the url parameter: hostnames under and outside the allowed domains
ProxyHosts ==
    { <<"n", "e", "x", "t", "-", "b", "l", "o", "g", ".", "o", "s", "s", "-", "c", "n", "-", "b", "e", "i", "j", "i", "n", "g", ".", "a", "l", "i", "y", "u", "n", "c", "s", ".", "c", "o", "m">>,
      <<"q", "b", "o", "x", ".", "m", "e">>,
      <<"a", ".", "q", "b", "o", "x", ".", "m", "e">>,
      <<"x", ".", "c", "l", "o", "u", "d", "d", "n", ".", "c", "o", "m">>,
      <<"q", ".", "i", "o">>,
      <<"c", "d", "n", ".", "q", ".", "i", "o">>,
      <<"e", "v", "i", "l", ".", "c", "o", "m">>,
      <<"q", "b", "o", "x", ".", "m", "e", ".", "e", "v", "i", "l", ".", "c", "o", "m">>,
      <<"e", "v", "i", "l", "q", "b", "o", "x", ".", "m", "e">>,
      <<"m", "y", "q", "i", "n", "i", "u", "d", "n", ".", "c", "o", "m", ".", "c", "n">> }

ProxyUrls ==
    { sch \o h \o path : sch \in {HttpScheme, HttpsScheme}, h \in ProxyHosts,
                         path \in {<<>>, <<"/", "a", ".", "m", "d">>} }
      \cup { <<"n", "o", "t", " ", "a", " ", "u", "r", "l">>, <<"/", "p", "o", "s", "t", "s", "/", "a", ".", "m", "d">> }

\* where '://' begins in a string, 0 when it has none
SchemeEnd(s) ==
    LET at == {i \in 1..(Len(s) - 2) : SubSeq(s, i, i + 2) = <<":", "/", "/">>}
    IN  IF at = {} THEN 0 ELSE CHOOSE i \in at : \A j \in at : i <= j

\* new URL(urlString) throws on a string without a scheme
IsUrl(s) == SchemeEnd(s) > 1

\* new URL(urlString).hostname: what stands between '://' and the next '/'
hostname(s) ==
    LET rest  == SubSeq(s, SchemeEnd(s) + 3, Len(s))
        slash == {i \in 1..Len(rest) : rest[i] = "/"}
    IN  IF slash = {} THEN rest
        ELSE SubSeq(rest, 1, (CHOOSE i \in slash : \A j \in slash : i <= j) - 1)

\* ALLOWED_DOMAINS.some(domain => urlObj.hostname.includes(domain))
isAllowedDomain(s, hostnameSet) ==
    \E domain \in ALLOWED_DOMAINS(hostnameSet) : Includes(hostname(s), domain)

\* RequestValidator.validateRequired({ url }, ['url']) on a missing url: the
\* thrown error as withErrorHandler answers it
validateRequired == withErrorHandlerCatch(ApiErrors("MISSING_PARAMS", <<>>))

ProxyRespond(r) == [proxy EXCEPT !.pc = "done", !.response = <<r>>]

\* GET up to its await on fetch
GET ==
    /\ proxy.pc = "start"
    /\ proxy' =
          IF proxy.url = <<>> THEN ProxyRespond(validateRequired)
          ELSE IF ~IsUrl(proxy.url[1])
          THEN ProxyRespond(errorResponse(
                   ApiErrors("BAD_REQUEST", <<<<"wu", "xiao", "de", "URL", "ge", "shi">>>>), 0, 0))
          ELSE IF ~isAllowedDomain(proxy.url[1], proxy.hostnameSet)
          THEN ProxyRespond(errorResponse(
                   ApiErrors("FORBIDDEN", <<<<"bu", "yun", "xu", "de", "yu", "ming">>>>), 0, 0))
          ELSE [proxy EXCEPT !.pc = "fetch", !.fetched = Append(@, proxy.url[1])]
    /\ UNCHANGED <<uploadVars, requestVars, errorVars, urlVars, pageVars>>

\* the upstream answers, or the fetch throws (timeout) into withErrorHandler
GETFetched(outcome) ==
    /\ proxy.pc = "fetch"
    /\ proxy' =
          CASE outcome = "ok" -> ProxyRespond([status |-> 200, body |-> [code |-> 200, success |-> TRUE]])
            [] outcome = "not ok" ->
                 ProxyRespond(errorResponse(
                     ApiErrors("EXTERNAL_API_ERROR", <<<<"huo", "qu", "wen", "jian", "shi", "bai">>>>), 0, 0))
            [] OTHER ->
                 ProxyRespond(withErrorHandlerCatch(PlainError(<<"t", "i", "m", "e", "o", "u", "t">>)))
    /\ UNCHANGED <<uploadVars, requestVars, errorVars, urlVars, pageVars>>

InitProxy ==
    proxy \in [pc          : {"start"},
               url         : {<<>>} \cup { <<u>> : u \in ProxyUrls },
               hostnameSet : BOOLEAN,
               fetched     : {<<>>},
               response    : {<<>>}]

----------------------------------------------------------------------------------------------------------------------------------------------------
(* Specifications *)

\* the values the variables of a part hold while another part is explored
IdleUpload ==
    /\ handler = "route"
    /\ STORAGE_PROVIDER = "aliyun"
    /\ env = FullEnv
    /\ form = [f \in {} |-> <<>>]
    /\ plan = [n \in 1..maxRetries |-> "ok"]
    /\ upc = "idle"
    /\ attempt = 0
    /\ puts = <<>>
    /\ waits = <<>>
    /\ caught = <<>>
    /\ response = <<>>

IdleRequest ==
    /\ pendingRequests = [k \in {} |-> 0]
    /\ reqs = [i \in {} |-> NoRequest]
    /\ lastCall = "other"

IdleError ==
    /\ thrown = PlainError(<<>>)
    /\ argStatusCode = 0
    /\ argCode = 0
    /\ envelope = <<[status |-> 0]>>
    /\ returned = <<>>

IdleUrl == urls = <<>>

IdlePage == page = [pc |-> "idle"]

IdleProxy == proxy = [pc |-> "idle"]

\* ---- the upload pipeline ----
InitSpecUpload == InitUpload /\ IdleRequest /\ IdleError /\ IdleUrl /\ IdlePage /\ IdleProxy

SpecUpload == InitSpecUpload /\ [][NextUpload]_vars

\* every put the provider was given calls back, and every delay timer fires
FairSpecUpload == SpecUpload /\ WF_vars(NextUpload)

\* ---- the Request wrapper: tracking and cancellation, calls without retry ----
InitSpecRequest == IdleUpload /\ InitRequest(NumReqs) /\ IdleError /\ IdleUrl /\ IdlePage /\ IdleProxy

NextRequest ==
    \/ \E u \in Urls, p \in Payloads, c \in CallerConfigs({NoRetry}, {0}) : get(u, p, c)
    \/ \E u \in Urls, d \in Payloads, c \in CallerConfigs({NoRetry}, {0}) : post(u, d, c)
    \/ \E u \in Urls, d \in Payloads, c \in CallerConfigs({NoRetry}, {0}) : put(u, d, c)
    \/ \E u \in Urls, d \in Payloads, c \in CallerConfigs({NoRetry}, {0}) : patch(u, d, c)
    \/ \E u \in Urls, c \in CallerConfigs({NoRetry}, {0}) : delete(u, c)
    \/ \E i \in DOMAIN reqs, o \in Outcomes : ServiceResponse(i, o)
    \/ \E i \in DOMAIN reqs : CancelDelivered(i)
    \/ \E c \in CancelConfigs : cancelRequest(c)
    \/ cancelAllRequests

SpecRequest == InitSpecRequest /\ [][NextRequest]_vars

\* ---- the Request wrapper: retries ----
\* retry counts up to MaxRetry with the default delay, and one retry with a
\* delay of its own; the wrapper makes the cancel source
RetryConfigs ==
    {c \in CallerConfigs({NoRetry} \cup 0..MaxRetry, {0}) \cup CallerConfigs({1}, {500}) :
        ~c.cancelToken}

InitSpecRetry == IdleUpload /\ InitRequest(NumRetryReqs) /\ IdleError /\ IdleUrl /\ IdlePage /\ IdleProxy

NextRetry ==
    \/ \E p \in Payloads, c \in RetryConfigs : get("/friends", p, c)
    \/ \E c \in RetryConfigs : post("/friends", <<1>>, c)
    \/ \E c \in RetryConfigs : delete("/friends", c)
    \/ \E i \in DOMAIN reqs, o \in Outcomes : ServiceResponse(i, o)
    \/ \E i \in DOMAIN reqs : RetryTimer(i)
    \/ \E i \in DOMAIN reqs, o \in Outcomes : AxiosResponse(i, o)
    \/ \E i \in DOMAIN reqs : CancelDelivered(i)
    \/ \E c \in CancelConfigs : cancelRequest(c)
    \/ cancelAllRequests

SpecRetry == InitSpecRetry /\ [][NextRetry]_vars

\* ---- the Request wrapper: tracking across retries and cancellation ----
\* with or without one retry, with or without a caller's cancel token
TrackConfigs == CallerConfigs({NoRetry, 1}, {0})

InitSpecTrack == IdleUpload /\ InitRequest(NumTrackReqs) /\ IdleError /\ IdleUrl /\ IdlePage /\ IdleProxy

NextTrack ==
    \/ \E p \in Payloads, c \in TrackConfigs : get("/friends", p, c)
    \/ \E i \in DOMAIN reqs, o \in {"200 enveloped", "500"} : ServiceResponse(i, o)
    \/ \E i \in DOMAIN reqs : RetryTimer(i)
    \/ \E i \in DOMAIN reqs, o \in {"200 enveloped", "500"} : AxiosResponse(i, o)
    \/ \E i \in DOMAIN reqs : CancelDelivered(i)
    \/ \E c \in CancelConfigs : cancelRequest(c)
    \/ cancelAllRequests

SpecTrack == InitSpecTrack /\ [][NextTrack]_vars

\* ---- the error envelope ----
InitSpecError == IdleUpload /\ IdleRequest /\ InitError /\ IdleUrl /\ IdlePage /\ IdleProxy

NextError == CallErrorResponse

SpecError == InitSpecError /\ [][NextError]_vars

\* ---- withErrorHandler around a handler that returns or throws ----
InitSpecHandler == IdleUpload /\ IdleRequest /\ InitHandler /\ IdleUrl /\ IdlePage /\ IdleProxy

NextHandler == withErrorHandler

SpecHandler == InitSpecHandler /\ [][NextHandler]_vars

\* ---- processUrl on a URL and on its own result ----
InitSpecUrl == IdleUpload /\ IdleRequest /\ IdleError /\ InitUrl /\ IdlePage /\ IdleProxy

NextUrl == ApplyProcessUrl

SpecUrl == InitSpecUrl /\ [][NextUrl]_vars

\* ---- the friends page: one save ----
InitSpecPage == IdleUpload /\ IdleRequest /\ IdleError /\ IdleUrl /\ InitPage /\ IdleProxy

NextPage ==
    \/ handleAddFriend
    \/ handleEditFriendSave
    \/ \E ok \in BOOLEAN : uploadImageFromUrl(ok)
    \/ \E ok \in BOOLEAN : uploadImage(ok)
    \/ SaveFriend

SpecPage == InitSpecPage /\ [][NextPage]_vars

\* ---- proxy-content: one GET ----
InitSpecProxy == IdleUpload /\ IdleRequest /\ IdleError /\ IdleUrl /\ IdlePage /\ InitProxy

NextProxy ==
    \/ GET
    \/ \E o \in {"ok", "not ok", "timeout"} : GETFetched(o)

SpecProxy == InitSpecProxy /\ [][NextProxy]_vars

\* the event loop runs every due timer and every pending rejection
FairSpecRetry ==
    /\ SpecRetry
    /\ \A i \in 1..NumRetryReqs :
          WF_vars(RetryTimer(i)) /\ WF_vars(CancelDelivered(i))

----------------------------------------------------------------------------
(* Properties of the upload pipeline *)

\* the POST got as far as handing the file to the provider
UploadStarted == puts # <<>>

UploadDone == upc = "done" /\ response # <<>>

AnswersUrl == response[1].status = 200 /\ "url" \in DOMAIN response[1].body

\* the provider fails attempts 1..k and would store the object on attempt k+1
FailsThenSucceeds(k) ==
    /\ k + 1 \in DOMAIN plan
    /\ plan[k + 1] = "ok"
    /\ \A n \in 1..k : plan[n] # "ok"

\* C1: for either provider, when the put fails on k < 3 consecutive attempts
\* (whatever the kind of failure) and would succeed on attempt k+1, the POST
\* ends answering {url}.
C1_RetryReachesSuccess ==
    (UploadDone /\ UploadStarted /\ \E k \in 0..(maxRetries - 1) : FailsThenSucceeds(k))
        => AnswersUrl

\* C2: when the put fails on every attempt, the upload makes exactly 3 puts and
\* the POST's catch receives the error of the third, answered as status 500
\* with that error's message.
C2_ExhaustionSurfacesLastError ==
    (UploadDone /\ UploadStarted /\ \A n \in DOMAIN plan : plan[n] # "ok")
        => /\ Len(puts) = maxRetries
           /\ caught # <<>>
           /\ caught[1].origin = "put" /\ caught[1].attempt = maxRetries
           /\ response[1].status = 500
           /\ "error" \in DOMAIN response[1].body
           /\ ~IsEmptyMessage(caught[1].message)
                  => response[1].body.error = caught[1].message

\* a file outside the allowlist: no allowed MIME prefix and no .md name
Disallowed(f) ==
    /\ "file" \in DOMAIN f
    /\ \A type \in allowedTypes : ~StartsWith(f.file.type, type)
    /\ ~EndsWith(f.file.name, <<".", "m", "d">>)

\* C7: a file outside the allowlist is answered with status 400 and no put is
\* issued, whatever the storage configuration is.
C7_DisallowedTypeIs400 ==
    (UploadDone /\ Disallowed(form)) => (response[1].status = 400 /\ puts = <<>>)

\* a configuration value of the selected provider is absent
ConfigMissing ==
    IF handler = "route" /\ STORAGE_PROVIDER = "qiniu"
    THEN \E k \in {"QINIU_ACCESS_KEY", "QINIU_SECRET_KEY", "QINIU_BUCKET", "QINIU_DOMAIN"} :
            ~Truthy(env, k)
    ELSE \E key \in {"region", "accessKeyId", "accessKeySecret", "bucket"} : ~OSSHas(env, key)

\* C12: when a configuration value of the selected provider is absent, a valid
\* upload is never handed to the provider, and it ends with an {error} response
\* of status 500 that reports the missing configuration and carries no url.
C12_MissingConfigFails ==
    (ConfigMissing /\ Validation(form) = <<>>)
        => /\ puts = <<>>
           /\ UploadDone
                => /\ response[1].status = 500
                   /\ DOMAIN response[1].body = {"error"}
                   /\ caught # <<>> /\ caught[1].origin = "config"

\* C12 apart from the Qiniu domain: the values getQiniuToken and
\* createOSSClient test
C12_Aux_CheckedValues ==
    (ConfigMissing /\ Validation(form) = <<>>
        /\ ~(handler = "route" /\ STORAGE_PROVIDER = "qiniu" /\ ~QiniuTokenMissing(env)))
        => /\ puts = <<>>
           /\ UploadDone => response[1].status = 500 /\ caught[1].origin = "config"

\* C13: the wait before put attempt k+1 is min(1000 * 2^(k-1), 5000) ms (1000,
\* then 2000), no wait exceeds 5000 ms, no wait follows the final attempt, an
\* upload issues at most 3 puts, and every upload ends.
C13_BackoffCappedAndTerminates ==
    /\ [](/\ Len(puts) <= 3
          /\ Len(waits) <= Len(puts)
          /\ \A k \in DOMAIN waits :
                /\ waits[k] = IF 1000 * (2 ^ (k - 1)) <= 5000
                              THEN 1000 * (2 ^ (k - 1)) ELSE 5000
                /\ waits[k] <= 5000
          /\ Len(waits) <= 2 => waits = SubSeq(<<1000, 2000>>, 1, Len(waits))
          /\ (UploadDone /\ UploadStarted) => Len(waits) = Len(puts) - 1
          /\ (UploadDone /\ ~UploadStarted) => waits = <<>>)
    /\ <>(upc = "done")

\* an upload that failed three times: it waited 1000 ms, then 2000 ms
C13_Witness ==
    /\ UploadDone /\ Len(puts) = 3 /\ waits = <<1000, 2000>>
    /\ response[1].status = 500

\* C14: every upload POST ends with exactly one response, either {url} with
\* status 200 or {error} with status 400 or 500; a url is answered only after
\* a put of that request succeeded, and no response has both url and error.
C14_OneResponseUrlOrError ==
    /\ [](/\ Len(response) <= 1
          /\ response # <<>>
                => /\ upc = "done"
                   /\ \/ /\ DOMAIN response[1].body = {"url"}
                         /\ response[1].status = 200
                         /\ puts # <<>> /\ PlanAt(Len(puts)) = "ok"
                      \/ /\ DOMAIN response[1].body = {"error"}
                         /\ response[1].status \in {400, 500})
    /\ [][response # <<>> => response' = response]_vars
    /\ <>(response # <<>>)

\* a POST answered {url} after a put that succeeded on the second attempt
C14_Witness ==
    /\ UploadDone /\ DOMAIN response[1].body = {"url"}
    /\ Len(puts) = 2 /\ plan[1] = "error" /\ plan[2] = "ok"

\* the extension of a file name: what follows its last '.', nothing without one
NameExtension(name) ==
    IF \A i \in DOMAIN name : name[i] # "." THEN <<>> ELSE SplitPop(name, ".")

\* the key the claim gives to the object of an accepted form
StorageKey(f) ==
    LET base == IF StartsWith(f.file.type, <<"i", "m", "a", "g", "e", "/">>)
                THEN <<"i", "m", "a", "g", "e", "s">>
                ELSE IF StartsWith(f.file.type, <<"v", "i", "d", "e", "o", "/">>)
                THEN <<"v", "i", "d", "e", "o", "s">>
                ELSE <<"a", "r", "t", "i", "c", "l", "e", "s">>
        dir  == IF "directory" \in DOMAIN f THEN f.directory
                ELSE <<"a", "r", "t", "i", "c", "l", "e", "s">>
    IN  base \o <<"/">> \o dir \o <<"/">> \o uuidv4 \o <<".">>
            \o ToLowerCase(NameExtension(f.file.name))

\* C18: every object put by the upload POST has the key
\* '<base>/<directory>/<unique id>.<ext>' (base by MIME type, directory from the
\* form or 'articles', ext the lower-cased non-empty extension of the file
\* name), and a file whose name has no extension is answered 400 with nothing
\* uploaded.
C18_KeyDerivation ==
    /\ \A k \in DOMAIN puts :
          /\ NameExtension(form.file.name) # <<>>
          /\ puts[k] = StorageKey(form)
    /\ (UploadDone /\ "file" \in DOMAIN form /\ NameExtension(form.file.name) = <<>>)
          => response[1].status = 400 /\ puts = <<>>

\* C18 for the names that have a '.': the key is derived as stated, and a name
\* ending in '.' is refused by route.ts with status 400
C18_Aux_NamesWithDot ==
    ("file" \in DOMAIN form /\ \E i \in DOMAIN form.file.name : form.file.name[i] = ".")
        => /\ \A k \in DOMAIN puts :
                 NameExtension(form.file.name) # <<>> /\ puts[k] = StorageKey(form)
           /\ (UploadDone /\ handler = "route" /\ NameExtension(form.file.name) = <<>>)
                 => response[1].status = 400 /\ puts = <<>>

----------------------------------------------------------------------------
(* Properties of the Request wrapper *)

Started(i) == reqs[i].state # "idle"

\* the wrapper made the cancel source of request i
Tracked(i) == ~reqs[i].requestConfig.cancelToken

InFlight(r) == r.state \in InFlightStates /\ ~r.cancelled

SameRequest(i, j) ==
    /\ reqs[i].method = reqs[j].method
    /\ reqs[i].url = reqs[j].url
    /\ reqs[i].params = reqs[j].params
    /\ reqs[i].data = reqs[j].data

KeyOf(i) == generateRequestKey(reqs[i].requestConfig)

\* C3: while two identical requests are in flight, pendingRequests holds the
\* entry of their common key, and it still holds it after a step that leaves
\* either of the two in flight.
C3_SharedEntryOutlivesFirst ==
    [][\A i, j \in DOMAIN reqs :
          (i # j /\ Tracked(i) /\ Tracked(j) /\ SameRequest(i, j)
               /\ InFlight(reqs[i]) /\ InFlight(reqs[j]))
            => /\ Has(KeyOf(i))
               /\ (InFlight(reqs'[i]) \/ InFlight(reqs'[j]))
                      => KeyOf(i) \in DOMAIN pendingRequests']_vars

\* C4: two requests in flight that differ in method, URL, params or body are
\* tracked under different keys.
C4_DifferentRequestsDifferentKeys ==
    \A i, j \in DOMAIN reqs :
        (i # j /\ Tracked(i) /\ Tracked(j) /\ InFlight(reqs[i]) /\ InFlight(reqs[j])
             /\ ~SameRequest(i, j))
          => KeyOf(i) # KeyOf(j)

\* C5: right after cancelAllRequests, every request the wrapper tracks that has
\* not settled is cancelled, and pendingRequests is empty.
C5_CancelAllReachesEveryRequest ==
    lastCall = "cancelAllRequests"
        => /\ DOMAIN pendingRequests = {}
           /\ \A i \in DOMAIN reqs :
                 (Tracked(i) /\ reqs[i].state \in InFlightStates) => reqs[i].cancelled

\* every attempt of request i failed and the promise rejected with the failure
AllAttemptsFailed(i) ==
    /\ reqs[i].state = "rejected"
    /\ reqs[i].result = "AxiosError"
    /\ reqs[i].failures = reqs[i].sends

\* C6: a call with retry = n > 0 whose every attempt fails has been sent n+1
\* times when its promise rejects, each retry retryDelay (default 1000) ms
\* after the failure before it.
C6_RetriesAllAttempts ==
    \A i \in DOMAIN reqs :
        (AllAttemptsFailed(i) /\ reqs[i].requestConfig.retry > 0)
          => /\ reqs[i].sends = reqs[i].requestConfig.retry + 1
             /\ reqs[i].delays = [n \in 1..reqs[i].requestConfig.retry |->
                                     retryDelay(reqs[i].requestConfig)]

\* C9: a request whose source was cancelled is never resolved, is not sent
\* again, and ends rejected.
C9_CancelledRequestRejects ==
    /\ [](\A i \in DOMAIN reqs :
             reqs[i].cancelled
               => reqs[i].state # "resolved" /\ reqs[i].sends = reqs[i].sentAtCancel)
    /\ \A i \in 1..NumRetryReqs :
          reqs[i].cancelled ~> reqs[i].state = "rejected"

\* a request was cancelled while it waited for its retry, and rejected unsent
C9_Witness ==
    \E i \in DOMAIN reqs :
        /\ reqs[i].cancelled /\ reqs[i].state = "rejected"
        /\ reqs[i].requestConfig.retry > 0 /\ reqs[i].delays # <<>>
        /\ reqs[i].sends = 1

\* C10: a call without a retry count, or with retry = 0, is sent once, never
\* waits for a retry, and is rejected as soon as its attempt has failed.
C10_NoRetryWithoutOptIn ==
    \A i \in DOMAIN reqs :
        (Started(i) /\ reqs[i].requestConfig.retry \in {NoRetry, 0})
          => /\ reqs[i].sends = 1
             /\ reqs[i].state # "waiting"
             /\ reqs[i].delays = <<>>
             /\ reqs[i].failures > 0 => reqs[i].state = "rejected"

C10_Witness ==
    \E i \in DOMAIN reqs :
        /\ reqs[i].requestConfig.retry = 0
        /\ reqs[i].state = "rejected" /\ reqs[i].failures = 1 /\ reqs[i].sends = 1

\* C11: every call through the wrapper that resolves, resolves with a value
\* that has the four fields code, data, message and success, also when the
\* server's body has a data field and when the call succeeded on a retry.
C11_ResolvedValueIsEnvelope ==
    \A i \in DOMAIN reqs :
        reqs[i].state = "resolved" => ResponseData \subseteq reqs[i].fields

\* request i is in flight and pendingRequests holds its own source
OwnEntry(rs, m, i) ==
    /\ generateRequestKey(rs[i].requestConfig) \in DOMAIN m
    /\ m[generateRequestKey(rs[i].requestConfig)] = i

\* C20: a request started without a caller's cancel token has its own cancel
\* source in pendingRequests from its start, and no step that leaves it in
\* flight (the start or the completion of another request, with or without a
\* caller's cancelToken) removes or replaces that entry.
C20_TrackingContinuity ==
    [][\A i \in DOMAIN reqs :
          /\ (~Started(i) /\ InFlight(reqs'[i]) /\ ~reqs'[i].requestConfig.cancelToken)
                => OwnEntry(reqs', pendingRequests', i)
          /\ (Tracked(i) /\ InFlight(reqs[i]) /\ OwnEntry(reqs, pendingRequests, i)
                 /\ InFlight(reqs'[i]))
                => OwnEntry(reqs', pendingRequests', i)]_vars

NoneInFlight == \A i \in DOMAIN reqs : reqs[i].state \notin InFlightStates

\* C21: whenever no request started through the wrapper is still in flight,
\* pendingRequests is empty, whatever starts, successes, failures, retries,
\* cancelRequest and cancelAllRequests came before.
C21_NoLeakedEntries == NoneInFlight => DOMAIN pendingRequests = {}

\* two requests shared a key; one was retried and rejected, the other resolved
C21_Witness ==
    /\ NoneInFlight /\ DOMAIN pendingRequests = {}
    /\ \E i, j \in DOMAIN reqs :
          /\ i # j /\ Tracked(i) /\ Tracked(j) /\ KeyOf(i) = KeyOf(j)
          /\ reqs[i].state = "rejected" /\ reqs[i].sends = 2
          /\ reqs[j].state = "resolved"

\* C24: only a response with status exactly 200 resolves a call; a response
\* with another status the HTTP library accepts (201) rejects the promise with
\* the interceptor's Error, and the call is not sent again even when retry > 0.
C24_OnlyStatus200Resolves ==
    \A i \in DOMAIN reqs :
        /\ reqs[i].state = "resolved" => reqs[i].status = 200
        /\ reqs[i].status = 201
              => /\ reqs[i].state = "rejected" /\ reqs[i].result = "Error"
                 /\ reqs[i].sends = reqs[i].failures + 1

\* C24, first send only: while no send of a call has failed, the response
\* passes the instance's interceptor, so only status 200 resolves the call and
\* a 201 rejects it with the interceptor's Error without another send.
C24_Aux_FirstSend ==
    \A i \in DOMAIN reqs :
        reqs[i].failures = 0
            => /\ reqs[i].state = "resolved" => reqs[i].status = 200
               /\ reqs[i].status = 201
                     => /\ reqs[i].state = "rejected" /\ reqs[i].result = "Error"
                        /\ reqs[i].sends = 1

\* C17: processUrl returns a URL that starts with '/api/', 'http://' or
\* 'https://' unchanged, turns every other URL u into '/api/' followed by u
\* without its leading '/', and applied to its own result changes nothing.
C17_ProcessUrlPrefixesOnce ==
    /\ Len(urls) >= 2
          => urls[2] =
               IF \E p \in {ApiRoot, HttpScheme, HttpsScheme} :
                     Len(urls[1]) >= Len(p) /\ \A n \in 1..Len(p) : urls[1][n] = p[n]
               THEN urls[1]
               ELSE IF urls[1] # <<>> /\ urls[1][1] = "/"
               THEN ApiRoot \o Tail(urls[1])
               ELSE ApiRoot \o urls[1]
    /\ Len(urls) = 3 => urls[3] = urls[2]

\* '/friends' became '/api/friends' and stayed so
C17_Witness ==
    /\ Len(urls) = 3
    /\ urls[1] = <<"/", "f", "r", "i", "e", "n", "d", "s">>
    /\ urls[3] = <<"/", "a", "p", "i", "/", "f", "r", "i", "e", "n", "d", "s">>

----------------------------------------------------------------------------
(* Properties of the error envelope *)

\* C8: for every ApiErrors constructor and message, errorResponse answers with
\* the error's statusCode and code, code = status in {400, 401, 403, 404, 409,
\* 429, 500}, success = false and error = the message, whatever statusCode and
\* code arguments it is given.
C8_EnvelopeRoundTrip ==
    (envelope # <<>> /\ thrown.ctor # "")
        => /\ envelope[1].status = ApiErrorsTable(thrown.ctor).statusCode
           /\ envelope[1].body.code = ApiErrorsTable(thrown.ctor).code
           /\ envelope[1].body.code = envelope[1].status
           /\ envelope[1].status \in {400, 401, 403, 404, 409, 429, 500}
           /\ envelope[1].body.success = FALSE
           /\ envelope[1].body.error = thrown.message

C8_Witness ==
    /\ envelope # <<>>
    /\ thrown.ctor = "NOT_FOUND" /\ thrown.message = <<"b", "o", "o", "m">>
    /\ argStatusCode = 418 /\ argCode = 1001
    /\ envelope[1].status = 404

----------------------------------------------------------------------------
(* Properties of withErrorHandler *)

MessageHas(m, en, zh) == Includes(m, en) \/ Includes(m, zh)

\* the status the claim gives to a thrown value
MappedStatus(e) ==
    CASE e.kind = "ApiError" -> e.statusCode
      [] e.kind = "Error" /\ MessageHas(e.message, NotFoundEn, NotFoundZh) -> 404
      [] e.kind = "Error" /\ ~MessageHas(e.message, NotFoundEn, NotFoundZh)
            /\ MessageHas(e.message, UnauthorizedEn, UnauthorizedZh) -> 401
      [] e.kind = "Error" /\ ~MessageHas(e.message, NotFoundEn, NotFoundZh)
            /\ ~MessageHas(e.message, UnauthorizedEn, UnauthorizedZh)
            /\ MessageHas(e.message, ForbiddenEn, ForbiddenZh) -> 403
      [] e.kind = "Error" /\ ~MessageHas(e.message, NotFoundEn, NotFoundZh)
            /\ ~MessageHas(e.message, UnauthorizedEn, UnauthorizedZh)
            /\ ~MessageHas(e.message, ForbiddenEn, ForbiddenZh)
            /\ MessageHas(e.message, ValidationEn, ValidationZh) -> 400
      [] OTHER -> 500

HandlerThrew == envelope # <<>> /\ thrown.kind # "none"

\* C15 as stated: when the wrapped handler throws, the status is the ApiError's
\* statusCode, else 404 / 401 / 403 / 400 by the first of 'not found',
\* 'unauthorized', 'forbidden', 'validation' (or their Chinese words) that the
\* Error's message contains, else 500, and 500 for a non-Error; in every case
\* the body has success = false and code equal to the HTTP status.
C15_StatusAndCodeAsStated ==
    HandlerThrew
        => /\ envelope[1].status = MappedStatus(thrown)
           /\ envelope[1].body.success = FALSE
           /\ envelope[1].body.code = envelope[1].status

\* C15 (amended): the status is mapped as stated and success = false; the
\* body's code equals the HTTP status for a thrown Error or non-Error, and is
\* the error's own code for an ApiError.
C15_StatusMappingOwnCode ==
    HandlerThrew
        => /\ envelope[1].status = MappedStatus(thrown)
           /\ envelope[1].body.success = FALSE
           /\ envelope[1].body.code = IF thrown.kind = "ApiError" THEN thrown.code
                                      ELSE envelope[1].status

\* a CONFLICT error saying 'not found' is answered 409, not 404
C15_Witness ==
    /\ HandlerThrew
    /\ thrown.ctor = "CONFLICT" /\ Includes(thrown.message, NotFoundEn)
    /\ envelope[1].status = 409 /\ envelope[1].body.code = 409

HandlerReturned == envelope # <<>> /\ returned # <<>>

\* C16: in every successful response each database document of data (a single
\* document, the elements of an array, the items of a paginated result) has
\* its _id as a string identifier, and its other fields as the handler gave them.
C16_DocumentsGetStringIds ==
    HandlerReturned
        => LET in  == returned[1].body.data
               out == envelope[1].body.data
           IN  /\ out.shape = in.shape
               /\ Len(out.docs) = Len(in.docs)
               /\ \A i \in DOMAIN in.docs :
                     "_id" \in DOMAIN in.docs[i]
                       => /\ DOMAIN out.docs[i] = DOMAIN in.docs[i]
                          /\ out.docs[i]["_id"].t = "string"
                          /\ out.docs[i]["_id"].v = in.docs[i]["_id"].v
                          /\ out.docs[i]["_id"].v # ""
                          /\ \A k \in (DOMAIN in.docs[i]) \ {"_id"} :
                                out.docs[i][k] = in.docs[i][k]

\* an array of two documents went through the conversion
C16_Witness ==
    /\ HandlerReturned
    /\ returned[1].body.data.shape = "array"
    /\ Len(returned[1].body.data.docs) = 2
    /\ envelope[1].body.data.docs[2]["_id"] = Str("65b2")

\* the handler's data holds no database document: nothing in it has an _id
NoDocuments(data) == \A i \in DOMAIN data.docs : "_id" \notin DOMAIN data.docs[i]

\* C22: a successful response whose data holds no database document leaves
\* withErrorHandler with the handler's status and with data as the handler
\* returned it; an array of values without _id gains no _id field.
C22_NonDocumentsUntouched ==
    (HandlerReturned /\ NoDocuments(returned[1].body.data))
        => /\ envelope[1].status = returned[1].status
           /\ envelope[1].body.data = returned[1].body.data

\* C22 for data that is not an array: absent, one object, or a page of items
C22_Aux_NotAnArray ==
    (HandlerReturned /\ NoDocuments(returned[1].body.data)
        /\ returned[1].body.data.shape # "array")
        => /\ envelope[1].status = returned[1].status
           /\ envelope[1].body.data = returned[1].body.data

----------------------------------------------------------------------------
(* Properties of the friends page *)

\* a save with no new file of a friend whose avatar the upload endpoint returned
SavesStoredAvatar == page.pc # "idle" /\ ~page.file /\ page.friend.avatar \in StoredAvatars

NoTransfer ==
    \A n \in DOMAIN page.fetches :
        page.fetches[n] \notin {"/api/proxy-image", "/api/upload"}

\* C19: when an add or an edit is saved with no new file and the avatar URL
\* was returned by the upload endpoint, nothing is downloaded through the
\* proxy, nothing is uploaded, and the POST/PUT body has the same avatar URL.
C19_StoredAvatarIsKept ==
    SavesStoredAvatar
        => /\ NoTransfer
           /\ page.body # <<>> => page.body[1] = page.friend.avatar

\* C19 for the URLs isOssUrl knows: Aliyun's, Qiniu's test domains, and the
\* domain named by NEXT_PUBLIC_QINIU_DOMAIN
C19_Aux_KnownDomains ==
    (SavesStoredAvatar
        /\ (\/ page.friend.avatar = AliyunUrl(FullEnv, AvatarKey)
            \/ Includes(page.friend.avatar, <<"c", "l", "o", "u", "d", "d", "n", ".", "c", "o", "m", "/">>)
            \/ page.publicDomain = FullEnv["QINIU_DOMAIN"]))
        => /\ NoTransfer
           /\ page.body # <<>> => page.body[1] = page.friend.avatar

----------------------------------------------------------------------------
(* Properties of proxy-content *)

\* one of the allowed domains, or a subdomain of one
AllowedHost(h, hostnameSet) ==
    \E d \in ALLOWED_DOMAINS(hostnameSet) : h = d \/ EndsWith(h, <<".">> \o d)

\* C23: the GET fetches only a url that parses and whose hostname is an
\* allowed domain or a subdomain of one; every other input is answered 400
\* (missing or invalid URL) or 403 (domain not allowed) and nothing is fetched.
C23_FetchOnlyAllowedHosts ==
    /\ proxy.pc # "idle" /\ proxy.fetched # <<>>
          => /\ proxy.url # <<>> /\ IsUrl(proxy.url[1])
             /\ AllowedHost(hostname(proxy.url[1]), proxy.hostnameSet)
    /\ (proxy.pc = "done" /\ (proxy.url = <<>> \/ ~IsUrl(proxy.url[1])))
          => proxy.response[1].status = 400 /\ proxy.fetched = <<>>
    /\ (proxy.pc = "done" /\ proxy.url # <<>> /\ IsUrl(proxy.url[1])
           /\ ~AllowedHost(hostname(proxy.url[1]), proxy.hostnameSet))
          => proxy.response[1].status = 403 /\ proxy.fetched = <<>>

\* C23 for hostnames that contain no allowed domain as a substring, and for
\* allowed hosts: refused with 403, or fetched
C23_Aux_NoSubstringHosts ==
    (proxy.pc = "done" /\ proxy.url # <<>> /\ IsUrl(proxy.url[1]))
        => IF AllowedHost(hostname(proxy.url[1]), proxy.hostnameSet)
           THEN proxy.fetched # <<>>
           ELSE (\A d \in ALLOWED_DOMAINS(proxy.hostnameSet) :
                     ~Includes(hostname(proxy.url[1]), d))
                  => proxy.response[1].status = 403 /\ proxy.fetched = <<>>

====
